---- MODULE Spec2Model ----
(***************************************************************************)
(* Risk-managed trade sizing and circuit-breaker core of stackalpha.       *)
(*                                                                         *)
(*   app/services/circuit_breaker.py          CircuitBreakerService        *)
(*   app/services/trading/executor.py         TradeExecutor                *)
(*   app/services/trading/risk_management.py  RiskManagementService        *)
(*   app/api/v1/risk.py                       risk and breaker endpoints   *)
(*   app/services/trading/position.py         PositionSyncService          *)
(*   app/workers/tasks/trading.py             trading tasks                *)
(*                                                                         *)
(* Spec      one CircuitBreakerService instance and the clock, driven by   *)
(*           arbitrary sequences of calls on two accounts.                 *)
(* SpecExec  the same service together with the trade ledger and the       *)
(*           TradeExecutor, all calls made within one clock tick.          *)
(* SpecRisk  calculate_position_size and validate_trade on the limits and  *)
(*           the portfolio metrics they fetched, drawn from bounded sets.  *)
(* SpecApi   the risk settings endpoints and the sizing and validation     *)
(*           calls of RiskManagementService over a ledger drawn from a     *)
(*           bounded set.                                                  *)
(* SpecConc  pause_trading, resume_trading and kill_switch coroutines      *)
(*           interleaved on one event loop at kill_switch's awaits.        *)
(* SpecCbApi the circuit-breaker endpoints, each request on its own        *)
(*           CircuitBreakerService instance.                               *)
(* SpecExecConc  execute_signal / open_trade requests interleaved at       *)
(*           their awaits.                                                 *)
(* SpecLedger  kill_switch with the operations that close trades, under    *)
(*           weak fairness of each of them.                                *)
(***************************************************************************)
EXTENDS Integers, Sequences, FiniteSets, TLC

VARIABLES
    cb_state,   \* CircuitBreakerService._state: dict user_id -> CircuitBreakerState
    now,        \* datetime.utcnow(), in seconds
    trades,     \* the trades table: sequence of Trade rows
    last,       \* the call that completed last and what it returned or raised
    risk_in,    \* the RiskLimits, PortfolioMetrics and prices a sizing request runs on
    sized,      \* the last calculate_position_size call: confidence and result
    validated,  \* the last validate_trade call: arguments and result
    risk_settings,  \* the risk_settings table: user_id -> RiskSettings row
    kill_task,  \* a kill_switch coroutine: where it is suspended, what it returned
    exec_tasks  \* the execute_signal / open_trade coroutines in flight, by request

cbvars == <<cb_state, now, trades, last, kill_task, exec_tasks>>
riskvars == <<risk_in, sized, validated, risk_settings>>
vars == <<cb_state, now, trades, last, risk_in, sized, validated, risk_settings, kill_task,
         exec_tasks>>

----------------------------------------------------------------------------
(* Bounds of the model *)

MaxTime == 90
TickSeconds == 30
MaxTrades == 2
MaxRequests == 2

Users == {"u1", "u2"}

----------------------------------------------------------------------------
(* Enumerations *)

\* class CircuitBreakerStatus
ACTIVE == "active"
PAUSED == "paused"
KILLED == "killed"
CircuitBreakerStatus == {ACTIVE, PAUSED, KILLED}

\* class SystemHealth
HEALTHY == "healthy"
DEGRADED == "degraded"
CRITICAL == "critical"
OFFLINE == "offline"
SystemHealth == {HEALTHY, DEGRADED, CRITICAL, OFFLINE}

\* class TradeStatus (the members the modelled code assigns or tests)
PENDING == "pending"
OPENING == "opening"
OPEN == "open"
CLOSING == "closing"
CLOSED == "closed"
FAILED == "failed"

\* Python None, for a str | None field (strings are modelled as token tuples)
NoneStr == << >>
\* Python None, for a datetime | None or int | None field
NoneTime == -1

\* What str.format prints for a str | None value
Fmt(s) == IF s = NoneStr THEN <<"None">> ELSE s

\* The reasons a caller passes to pause_trading / update_system_health
Reasons == {<<"manual">>}
HealthReasons == {NoneStr, <<"exchange down">>}
\* duration_seconds: None, 0 (falsy) or a positive number of seconds
Durations == {NoneTime, 0, 2 * TickSeconds}

KillReason == <<"EMERGENCY: Kill switch activated">>

\* settings.max_concurrent_positions
max_concurrent_positions == 5

----------------------------------------------------------------------------
(* CircuitBreakerState and the methods of CircuitBreakerService, as        *)
(* functions from the _state dict (and the clock) to the new dict.         *)

\* CircuitBreakerState(status=CircuitBreakerStatus.ACTIVE)
NewState ==
    [status |-> ACTIVE, paused_reason |-> NoneStr, paused_at |-> NoneTime,
     paused_by |-> NoneStr, auto_resume_at |-> NoneTime, system_health |-> HEALTHY]

get_state(st, u) ==
    IF u \in DOMAIN st THEN st ELSE st @@ (u :> NewState)

\* is_trading_allowed with the health tests placed before the status tests
is_trading_allowed_health_first(s) ==
    IF s.system_health = CRITICAL
        THEN [allowed |-> FALSE, reason |-> <<"System health: Critical">>]
    ELSE IF s.system_health = OFFLINE
        THEN [allowed |-> FALSE, reason |-> <<"System offline">>]
    ELSE IF s.status = KILLED
        THEN [allowed |-> FALSE, reason |-> <<"Circuit breaker: Kill switch activated">>]
    ELSE IF s.status = PAUSED
        THEN [allowed |-> FALSE, reason |-> <<"Trading paused: ">> \o Fmt(s.paused_reason)]
    ELSE [allowed |-> TRUE, reason |-> NoneStr]

\* The (allowed, reason) pair of is_trading_allowed for one state
is_trading_allowed(s) ==
    IF s.status = KILLED
        THEN [allowed |-> FALSE, reason |-> <<"Circuit breaker: Kill switch activated">>]
    ELSE IF s.status = PAUSED
        THEN [allowed |-> FALSE, reason |-> <<"Trading paused: ">> \o Fmt(s.paused_reason)]
    ELSE IF s.system_health = CRITICAL
        THEN [allowed |-> FALSE, reason |-> <<"System health: Critical">>]
    ELSE IF s.system_health = OFFLINE
        THEN [allowed |-> FALSE, reason |-> <<"System offline">>]
    ELSE [allowed |-> TRUE, reason |-> NoneStr]

\* pause_trading without the else branch of lines 121-122
pause_trading_keeps_deadline(st, u, reason, paused_by, duration_seconds, t) ==
    LET st1 == get_state(st, u)
    IN  [st1 EXCEPT ![u] =
            [@ EXCEPT !.status = PAUSED,
                      !.paused_reason = reason,
                      !.paused_at = t,
                      !.paused_by = paused_by,
                      !.auto_resume_at =
                          IF duration_seconds # NoneTime /\ duration_seconds # 0
                              THEN t + duration_seconds
                              ELSE @]]

pause_trading(st, u, reason, paused_by, duration_seconds, t) ==
    LET st1 == get_state(st, u)
    IN  [st1 EXCEPT ![u] =
            [@ EXCEPT !.status = PAUSED,
                      !.paused_reason = reason,
                      !.paused_at = t,
                      !.paused_by = paused_by,
                      !.auto_resume_at =
                          IF duration_seconds # NoneTime /\ duration_seconds # 0
                              THEN t + duration_seconds
                              ELSE NoneTime]]

\* resume_trading without the test of line 135
resume_never_raises(st, u) == FALSE

\* resume_trading raises ValueError on a killed account
resume_raises(st, u) == get_state(st, u)[u].status = KILLED

resume_trading(st, u) ==
    LET st1 == get_state(st, u)
    IN  IF resume_raises(st, u)
            THEN st1
            ELSE [st1 EXCEPT ![u] =
                    [@ EXCEPT !.status = ACTIVE,
                              !.paused_reason = NoneStr,
                              !.paused_at = NoneTime,
                              !.paused_by = NoneStr,
                              !.auto_resume_at = NoneTime]]

\* kill_switch that leaves a paused account as it is
kill_switch_unless_paused(st, u, t) ==
    LET st1 == get_state(st, u)
    IN  IF st1[u].status = PAUSED
            THEN st1
            ELSE [st1 EXCEPT ![u] =
                    [@ EXCEPT !.status = KILLED,
                              !.paused_reason = KillReason,
                              !.paused_at = t,
                              !.paused_by = <<"kill_switch">>]]

\* The circuit-breaker half of kill_switch (lines 160-164)
kill_switch(st, u, t) ==
    LET st1 == get_state(st, u)
    IN  [st1 EXCEPT ![u] =
            [@ EXCEPT !.status = KILLED,
                      !.paused_reason = KillReason,
                      !.paused_at = t,
                      !.paused_by = <<"kill_switch">>]]

\* The ledger half of kill_switch without the user_id filter of line 172
kill_switch_trades_every_user(tr, u, close_positions) ==
    IF close_positions
        THEN [i \in DOMAIN tr |->
                IF tr[i].status \in {OPEN, OPENING}
                    THEN [tr[i] EXCEPT !.status = CLOSING]
                    ELSE tr[i]]
        ELSE tr

\* The ledger half of kill_switch (lines 168-186)
kill_switch_trades(tr, u, close_positions) ==
    IF close_positions
        THEN [i \in DOMAIN tr |->
                IF tr[i].user = u /\ tr[i].status \in {OPEN, OPENING}
                    THEN [tr[i] EXCEPT !.status = CLOSING]
                    ELSE tr[i]]
        ELSE tr

\* deactivate_kill_switch that keeps the actor of the pause
deactivate_kill_switch_keeps_actor(st, u) ==
    LET st1 == get_state(st, u)
    IN  [st1 EXCEPT ![u] =
            [@ EXCEPT !.status = ACTIVE,
                      !.paused_reason = NoneStr,
                      !.paused_at = NoneTime]]

deactivate_kill_switch(st, u) ==
    LET st1 == get_state(st, u)
    IN  [st1 EXCEPT ![u] =
            [@ EXCEPT !.status = ACTIVE,
                      !.paused_reason = NoneStr,
                      !.paused_at = NoneTime,
                      !.paused_by = NoneStr]]

\* check_auto_triggers with the auto-resume test of line 225 made before the
\* status test of line 221
check_auto_triggers_resume_first(st, u, t) ==
    LET st1 == get_state(st, u)
        s == st1[u]
    IN  IF s.status = PAUSED /\ s.auto_resume_at # NoneTime /\ t >= s.auto_resume_at
            THEN resume_trading(st1, u)
        ELSE st1

check_auto_triggers(st, u, t) ==
    LET st1 == get_state(st, u)
        s == st1[u]
    IN  IF s.status # ACTIVE
            THEN st1
        ELSE IF s.status = PAUSED /\ s.auto_resume_at # NoneTime /\ t >= s.auto_resume_at
            THEN resume_trading(st1, u)
        ELSE st1

\* update_system_health that pauses every account that is not killed
update_system_health_pauses_paused(st, health, reason, t) ==
    [u \in DOMAIN st |->
        LET s == [st[u] EXCEPT !.system_health = health]
        IN  IF health = CRITICAL /\ s.status # KILLED
                THEN pause_trading(u :> s, u, <<"System health critical: ">> \o Fmt(reason),
                                   <<"system">>, NoneTime, t)[u]
                ELSE s]

update_system_health(st, health, reason, t) ==
    [u \in DOMAIN st |->
        LET s == [st[u] EXCEPT !.system_health = health]
        IN  IF health = CRITICAL /\ s.status = ACTIVE
                THEN pause_trading(u :> s, u, <<"System health critical: ">> \o Fmt(reason),
                                   <<"system">>, NoneTime, t)[u]
                ELSE s]

----------------------------------------------------------------------------
(* The trades table.  A Numeric column holds None (<< >>) or a Decimal      *)
(* (<<n>>, in whole units of the quote currency); closed_at is in seconds. *)

NoneNum == << >>
Dec(n) == <<n>>

\* class Trade, with the columns the modelled code reads or writes
Trade(u, status) ==
    [user |-> u, status |-> status,
     position_size_usd |-> Dec(1000), entry_price |-> NoneNum,
     stop_loss_price |-> Dec(95), margin_used |-> NoneNum,
     unrealized_pnl |-> NoneNum, realized_pnl |-> NoneNum, closed_at |-> NoneTime]

\* _open_position, lines 236-241: the fields copied from the listed position
Opened(t) == [t EXCEPT !.status = OPEN, !.entry_price = Dec(100), !.margin_used = Dec(100)]

----------------------------------------------------------------------------
(* TradeExecutor *)

\* _count_open_trades
count_open_trades(tr, u) ==
    Cardinality({i \in DOMAIN tr : tr[i].user = u /\ tr[i].status \in {OPEN, OPENING}})

\* _open_position: the status the new trade ends with inside the try/except
\* of its caller, and whether place_market_order was called.
\*   key_ok    wallet_service.get_private_key(wallet) returned a key
\*   exch      "leverage_error": update_leverage raised; "filled": the order
\*             was placed and the position is listed; "no_position": the
\*             order was placed and the position is not listed
open_position(key_ok, exch) ==
    IF ~key_ok THEN [status |-> FAILED, order |-> FALSE]
    ELSE IF exch = "leverage_error" THEN [status |-> FAILED, order |-> FALSE]
    ELSE IF exch = "filled" THEN [status |-> OPEN, order |-> TRUE]
    ELSE [status |-> FAILED, order |-> TRUE]

ExchangeOutcomes == {"leverage_error", "filled", "no_position"}

\* execute_signal: what it raises before creating the trade, or "ok"
execute_signal_raises(tr, u, can_trade, available_balance_positive) ==
    IF ~can_trade THEN "TradingDisabledError"
    ELSE IF count_open_trades(tr, u) >= max_concurrent_positions THEN "PositionLimitError"
    ELSE IF ~available_balance_positive THEN "InsufficientBalanceError"
    ELSE "ok"

\* open_trade: what it raises before creating the trade, or "ok"
open_trade_raises(tr, u, can_trade, balance_covers_margin, price_positive) ==
    IF ~can_trade THEN "TradingDisabledError"
    ELSE IF count_open_trades(tr, u) >= max_concurrent_positions THEN "PositionLimitError"
    ELSE IF ~balance_covers_margin THEN "InsufficientBalanceError"
    ELSE IF ~price_positive THEN "BadRequestError"
    ELSE "ok"

----------------------------------------------------------------------------
(* Python float arithmetic.  A float is a pair <<m, e>> standing for        *)
(* m * 2^e, with m odd (or <<0, 0>> for zero); every operation returns the *)
(* exact result rounded to the nearest value with MantissaBits significant  *)
(* bits, ties to even, as IEEE 754 does.  CPython's float has 53 bits; the  *)
(* model keeps the rounding and bounds the width.                           *)

MantissaBits == 12

Abs(n) == IF n < 0 THEN -n ELSE n
Sgn(n) == IF n < 0 THEN -1 ELSE IF n > 0 THEN 1 ELSE 0

RECURSIVE Pow2(_)
Pow2(k) == IF k <= 0 THEN 1 ELSE 2 * Pow2(k - 1)

RECURSIVE BitLen(_)
BitLen(n) == IF n <= 0 THEN 0 ELSE 1 + BitLen(n \div 2)

RECURSIVE Canon(_, _)
Canon(m, e) ==
    IF m = 0 THEN <<0, 0>>
    ELSE IF m % 2 = 0 THEN Canon(m \div 2, e + 1)
    ELSE <<m, e>>

\* n * 2^e rounded to MantissaBits bits, ties to even
RoundTo(n, e) ==
    LET a == Abs(n)
        k == BitLen(a) - MantissaBits
    IN  IF k <= 0 THEN Canon(n, e)
        ELSE LET q == a \div Pow2(k)
                 r == a % Pow2(k)
                 half == Pow2(k - 1)
                 up == r > half \/ (r = half /\ q % 2 = 1)
             IN  Canon(Sgn(n) * (IF up THEN q + 1 ELSE q), e + k)

FromInt(n) == RoundTo(n, 0)
FZero == <<0, 0>>
IsZero(x) == x[1] = 0
FNeg(x) == <<-x[1], x[2]>>
FAbs(x) == <<Abs(x[1]), x[2]>>

FMul(x, y) == RoundTo(x[1] * y[1], x[2] + y[2])

\* x / y for y # 0: the quotient to MantissaBits + 2 bits and a sticky bit
FDiv(x, y) ==
    IF IsZero(x) THEN FZero
    ELSE LET a == Abs(x[1])
             b == Abs(y[1])
             sh == MantissaBits + 2 + BitLen(b) - BitLen(a)
             num == a * Pow2(sh)
             q == num \div b
             sticky == IF num % b = 0 THEN 0 ELSE 1
         IN  RoundTo(Sgn(x[1]) * Sgn(y[1]) * (2 * q + sticky), x[2] - y[2] - sh - 1)

\* x + y: exact when the operands overlap, else the operand that dwarfs the other
FAdd(x, y) ==
    IF IsZero(x) THEN y
    ELSE IF IsZero(y) THEN x
    ELSE LET hi == IF x[2] >= y[2] THEN x ELSE y
             lo == IF x[2] >= y[2] THEN y ELSE x
             d == hi[2] - lo[2]
         IN  IF BitLen(Abs(hi[1])) + d > 2 * MantissaBits + 4
                 THEN hi
                 ELSE RoundTo(hi[1] * Pow2(d) + lo[1], lo[2])

FSub(x, y) == FAdd(x, FNeg(y))

FLt(x, y) == FSub(x, y)[1] < 0
FLe(x, y) == FSub(x, y)[1] <= 0
FGt(x, y) == FLt(y, x)
FGe(x, y) == FLe(y, x)
\* Python's min / max of two floats
FMin(x, y) == IF FLt(y, x) THEN y ELSE x
FMax(x, y) == IF FGt(y, x) THEN y ELSE x

\* Python None for a float | None argument
NoneFloat == <<0, 1>>

----------------------------------------------------------------------------
(* RiskManagementService *)

\* class PositionSizingMethod
FIXED_AMOUNT == "fixed_amount"
FIXED_PERCENT == "fixed_percent"
KELLY_CRITERION == "kelly"
RISK_PARITY == "risk_parity"
PositionSizingMethod == {FIXED_AMOUNT, FIXED_PERCENT, KELLY_CRITERION, RISK_PARITY}

\* RiskLimits(): the dataclass defaults
RiskLimits ==
    [max_position_size_usd |-> FromInt(10000),
     max_position_size_percent |-> FromInt(10),
     position_sizing_method |-> FIXED_PERCENT,
     max_portfolio_heat |-> FromInt(50),
     max_open_positions |-> 5,
     max_leverage |-> 10,
     max_daily_loss_usd |-> FromInt(500),
     max_daily_loss_percent |-> FromInt(5),
     max_weekly_loss_percent |-> FromInt(10),
     max_monthly_loss_percent |-> FromInt(20),
     min_risk_reward_ratio |-> <<3, -1>>,
     max_correlated_positions |-> 2,
     max_single_asset_exposure_percent |-> FromInt(20),
     max_consecutive_losses |-> 3,
     trading_paused |-> FALSE]

DaySeconds == 86400

\* The clock counts from Monday 2024-01-01 00:00 UTC and stays within January
today_start(t) == t - (t % DaySeconds)
week_start(t) == today_start(t) - DaySeconds * ((t \div DaySeconds) % 7)
month_start(t) == today_start(t) - DaySeconds * ((t \div DaySeconds) % 31)

\* x or 0, for a Numeric column
OrZero(x) == IF x = NoneNum THEN 0 ELSE x[1]

RECURSIVE SumOver(_, _, _)
\* sum of column col over the rows with index in S
SumOver(tr, S, col) ==
    IF S = {} THEN 0
    ELSE LET i == CHOOSE j \in S : TRUE
         IN  OrZero(tr[i][col]) + SumOver(tr, S \ {i}, col)

\* select(func.sum(Trade.realized_pnl)) over the closed trades since `since`
realized_since(tr, u, since) ==
    SumOver(tr, {i \in DOMAIN tr : /\ tr[i].user = u /\ tr[i].status = CLOSED
                                   /\ tr[i].closed_at # NoneTime
                                   /\ tr[i].closed_at >= since}, "realized_pnl")

RECURSIVE losing_streak(_, _, _)
\* lines 158-175: the closed trades newest first (order_by closed_at desc,
\* limit 10), counted while they are losses
losing_streak(tr, S, taken) ==
    IF S = {} \/ taken = 10 THEN 0
    ELSE LET i == CHOOSE j \in S : \A k \in S : tr[j].closed_at >= tr[k].closed_at
         IN  IF tr[i].realized_pnl[1] < 0
                 THEN 1 + losing_streak(tr, S \ {i}, taken + 1)
                 ELSE 0

\* get_portfolio_metrics.  A sum of Numeric columns is a Decimal unless every
\* term is None or zero (then it is the int 0); adding the float daily_pnl to
\* a Decimal (line 180) raises TypeError.
get_portfolio_metrics(tr, u, t) ==
    LET open_trades == {i \in DOMAIN tr : tr[i].user = u /\ tr[i].status \in {OPEN, OPENING}}
        daily_pnl == realized_since(tr, u, today_start(t))
        weekly_pnl == realized_since(tr, u, week_start(t))
        monthly_pnl == realized_since(tr, u, month_start(t))
        closed == {i \in DOMAIN tr : /\ tr[i].user = u /\ tr[i].status = CLOSED
                                     /\ tr[i].realized_pnl # NoneNum}
        total_margin == SumOver(tr, open_trades, "margin_used")
        total_unrealized == SumOver(tr, open_trades, "unrealized_pnl")
        decimal_total == \E i \in open_trades :
                            OrZero(tr[i].margin_used) # 0 \/ OrZero(tr[i].unrealized_pnl) # 0
        total_equity == FromInt(total_margin + total_unrealized + daily_pnl)
        risky == {i \in open_trades : OrZero(tr[i].entry_price) # 0
                                       /\ OrZero(tr[i].stop_loss_price) # 0}
    IN  IF decimal_total
            THEN [raised |-> "TypeError", total_equity |-> FZero, daily_pnl |-> FZero,
                  weekly_pnl |-> FZero, monthly_pnl |-> FZero, open_positions_count |-> 0,
                  portfolio_heat |-> FZero, consecutive_losses |-> 0]
        ELSE IF risky # {} /\ FGt(total_equity, FZero)
            THEN [raised |-> "TypeError", total_equity |-> FZero, daily_pnl |-> FZero,
                  weekly_pnl |-> FZero, monthly_pnl |-> FZero, open_positions_count |-> 0,
                  portfolio_heat |-> FZero, consecutive_losses |-> 0]
        ELSE [raised |-> "none",
              total_equity |-> total_equity,
              daily_pnl |-> FromInt(daily_pnl),
              weekly_pnl |-> FromInt(weekly_pnl),
              monthly_pnl |-> FromInt(monthly_pnl),
              open_positions_count |-> Cardinality(open_trades),
              portfolio_heat |-> FZero,
              consecutive_losses |-> losing_streak(tr, closed, 0)]

\* get_risk_limits: the stored settings are not read
get_risk_limits(user_id) == RiskLimits

F100 == FromInt(100)

\* PositionSizingResult(0, 0, 0, approved=False, rejection_reason=reason)
Rejected(reason) ==
    [position_size_usd |-> FZero, position_size_percent |-> FZero, risk_amount |-> FZero,
     approved |-> FALSE, rejection_reason |-> reason, raised |-> "none"]

\* The call did not return: it raised
Raised(exc) ==
    [position_size_usd |-> FZero, position_size_percent |-> FZero, risk_amount |-> FZero,
     approved |-> FALSE, rejection_reason |-> "none", raised |-> exc]

\* calculate_position_size, line 245, with > for >=
sizer_loss_streak_strict(limits, metrics) ==
    metrics.consecutive_losses > limits.max_consecutive_losses

\* calculate_position_size, line 245
sizer_loss_streak(limits, metrics) ==
    metrics.consecutive_losses >= limits.max_consecutive_losses

\* validate_trade, line 411, with > for >=
validator_loss_streak_strict(limits, metrics) ==
    metrics.consecutive_losses > limits.max_consecutive_losses

\* validate_trade, line 411
validator_loss_streak(limits, metrics) ==
    metrics.consecutive_losses >= limits.max_consecutive_losses

\* calculate_position_size, lines 254-259
daily_loss_percent(metrics) ==
    IF FGt(metrics.total_equity, FZero) /\ FLt(metrics.daily_pnl, FZero)
        THEN FMul(FDiv(FAbs(metrics.daily_pnl), metrics.total_equity), F100)
        ELSE FZero

\* The Kelly fraction of line 313 without the clamp of line 314
kelly_fraction_unclamped(signal_confidence) ==
    LET win_prob == signal_confidence
        loss_prob == FSub(FromInt(1), win_prob)
        avg_win == <<3, -1>>
        avg_loss == FromInt(1)
    IN  FDiv(FSub(FMul(win_prob, avg_win), FMul(loss_prob, avg_loss)), avg_win)

\* calculate_position_size, lines 305-314
kelly_fraction(signal_confidence) ==
    LET win_prob == signal_confidence
        loss_prob == FSub(FromInt(1), win_prob)
        avg_win == <<3, -1>>
        avg_loss == FromInt(1)
        kelly == FDiv(FSub(FMul(win_prob, avg_win), FMul(loss_prob, avg_loss)), avg_win)
    IN  FMax(FZero, FMin(kelly, <<1, -2>>))

\* The result without the max_position_size_usd cap of line 327
size_result_no_usd_cap(limits, metrics, position_size_usd, risk_percent) ==
    LET size == FMin(position_size_usd,
                     FDiv(FMul(metrics.total_equity, limits.max_position_size_percent), F100))
        position_size_percent ==
            IF FGt(metrics.total_equity, FZero)
                THEN FMul(FDiv(size, metrics.total_equity), F100)
                ELSE FZero
        risk_amount == FMul(size, risk_percent)
        new_portfolio_heat ==
            IF FGt(metrics.total_equity, FZero)
                THEN FAdd(metrics.portfolio_heat,
                          FMul(FDiv(risk_amount, metrics.total_equity), F100))
                ELSE FZero
    IN  IF FGt(new_portfolio_heat, limits.max_portfolio_heat)
            THEN Rejected("Portfolio heat limit exceeded")
            ELSE [position_size_usd |-> size,
                  position_size_percent |-> position_size_percent,
                  risk_amount |-> risk_amount,
                  approved |-> TRUE, rejection_reason |-> "none", raised |-> "none"]

\* calculate_position_size, lines 324-358: hard limits, heat check, result
size_result(limits, metrics, position_size_usd, risk_percent) ==
    LET size == FMin(FMin(position_size_usd, limits.max_position_size_usd),
                     FDiv(FMul(metrics.total_equity, limits.max_position_size_percent), F100))
        position_size_percent ==
            IF FGt(metrics.total_equity, FZero)
                THEN FMul(FDiv(size, metrics.total_equity), F100)
                ELSE FZero
        risk_amount == FMul(size, risk_percent)
        new_portfolio_heat ==
            IF FGt(metrics.total_equity, FZero)
                THEN FAdd(metrics.portfolio_heat,
                          FMul(FDiv(risk_amount, metrics.total_equity), F100))
                ELSE FZero
    IN  IF FGt(new_portfolio_heat, limits.max_portfolio_heat)
            THEN Rejected("Portfolio heat limit exceeded")
            ELSE [position_size_usd |-> size,
                  position_size_percent |-> position_size_percent,
                  risk_amount |-> risk_amount,
                  approved |-> TRUE, rejection_reason |-> "none", raised |-> "none"]

\* calculate_position_size, from line 234 on, for the limits and the metrics
\* that lines 231-232 fetched
calculate_position_size(limits, metrics, entry_price, stop_loss_price, signal_confidence) ==
    LET risk_per_share == FAbs(FSub(entry_price, stop_loss_price))
        risk_percent == FDiv(risk_per_share, entry_price)
        risk_reward_ratio == <<3, -1>>
        equity_percent ==
            FDiv(FMul(metrics.total_equity, limits.max_position_size_percent), F100)
    IN  IF limits.trading_paused
            THEN Rejected("Trading is paused by circuit breaker")
        ELSE IF sizer_loss_streak(limits, metrics)
            THEN Rejected("Circuit breaker: consecutive losses")
        ELSE IF FGe(daily_loss_percent(metrics), limits.max_daily_loss_percent)
            THEN Rejected("Daily loss limit reached")
        ELSE IF metrics.open_positions_count >= limits.max_open_positions
            THEN Rejected("Max open positions reached")
        ELSE IF IsZero(entry_price)
            THEN Raised("ZeroDivisionError")
        ELSE IF FLt(risk_reward_ratio, limits.min_risk_reward_ratio)
            THEN Rejected("Risk-reward ratio too low")
        ELSE IF limits.position_sizing_method = FIXED_AMOUNT
            THEN size_result(limits, metrics,
                             FMin(limits.max_position_size_usd, equity_percent), risk_percent)
        ELSE IF limits.position_sizing_method = FIXED_PERCENT
            THEN size_result(limits, metrics, equity_percent, risk_percent)
        ELSE IF limits.position_sizing_method = KELLY_CRITERION
            THEN size_result(limits, metrics,
                             FMul(metrics.total_equity, kelly_fraction(signal_confidence)),
                             risk_percent)
        ELSE IF IsZero(risk_percent)
            THEN Raised("ZeroDivisionError")
        ELSE size_result(limits, metrics,
                         FDiv(FDiv(FMul(metrics.total_equity, FromInt(1)), F100), risk_percent),
                         risk_percent)

\* (approved, reason) of validate_trade
Denied(reason) == [approved |-> FALSE, reason |-> reason]

\* The daily loss check with the percent test placed before the dollar test
daily_loss_denial_percent_first(limits, metrics) ==
    IF FLt(metrics.daily_pnl, FZero)
        THEN LET daily_loss_usd == FAbs(metrics.daily_pnl)
                 loss_percent ==
                     IF FGt(metrics.total_equity, FZero)
                         THEN FMul(FDiv(daily_loss_usd, metrics.total_equity), F100)
                         ELSE FZero
             IN  IF FGe(loss_percent, limits.max_daily_loss_percent) THEN "Daily loss %"
                 ELSE IF FGe(daily_loss_usd, limits.max_daily_loss_usd) THEN "Daily loss limit"
                 ELSE "none"
        ELSE "none"

\* validate_trade, lines 387-398: the daily loss check
daily_loss_denial(limits, metrics) ==
    IF FLt(metrics.daily_pnl, FZero)
        THEN LET daily_loss_usd == FAbs(metrics.daily_pnl)
                 loss_percent ==
                     IF FGt(metrics.total_equity, FZero)
                         THEN FMul(FDiv(daily_loss_usd, metrics.total_equity), F100)
                         ELSE FZero
             IN  IF FGe(daily_loss_usd, limits.max_daily_loss_usd) THEN "Daily loss limit"
                 ELSE IF FGe(loss_percent, limits.max_daily_loss_percent) THEN "Daily loss %"
                 ELSE "none"
        ELSE "none"

\* validate_trade, lines 400-408: the weekly loss check
weekly_loss_denial(limits, metrics) ==
    IF FLt(metrics.weekly_pnl, FZero)
        THEN LET weekly_loss_percent ==
                     IF FGt(metrics.total_equity, FZero)
                         THEN FMul(FDiv(FAbs(metrics.weekly_pnl), metrics.total_equity), F100)
                         ELSE FZero
             IN  IF FGe(weekly_loss_percent, limits.max_weekly_loss_percent)
                     THEN "Weekly loss limit" ELSE "none"
        ELSE "none"

\* A test that takes 0.0 for a missing value and lets None through
Falsy_zero_only(x) == x # NoneFloat /\ IsZero(x)

\* not x, for a float | None argument
Falsy(x) == x = NoneFloat \/ IsZero(x)

\* validate_trade, from line 379 on, for the limits and the metrics that
\* lines 376-377 fetched
validate_trade(limits, metrics, position_size_usd, entry_price, stop_loss_price, take_profit_price) ==
    LET position_percent ==
            IF FGt(metrics.total_equity, FZero)
                THEN FMul(FDiv(position_size_usd, metrics.total_equity), F100)
                ELSE FZero
        risk == FAbs(FSub(entry_price, stop_loss_price))
        reward == FAbs(FSub(take_profit_price, entry_price))
        rr_ratio == IF FGt(risk, FZero) THEN FDiv(reward, risk) ELSE FZero
    IN  IF limits.trading_paused
            THEN Denied("Trading is paused")
        ELSE IF metrics.open_positions_count >= limits.max_open_positions
            THEN Denied("Max open positions")
        ELSE IF daily_loss_denial(limits, metrics) # "none"
            THEN Denied(daily_loss_denial(limits, metrics))
        ELSE IF weekly_loss_denial(limits, metrics) # "none"
            THEN Denied(weekly_loss_denial(limits, metrics))
        ELSE IF validator_loss_streak(limits, metrics)
            THEN Denied("Consecutive losses")
        ELSE IF FGt(position_size_usd, limits.max_position_size_usd)
            THEN Denied("Position too large")
        ELSE IF FGt(position_percent, limits.max_position_size_percent)
            THEN Denied("Position % too large")
        ELSE IF Falsy(stop_loss_price)
            THEN Denied("Stop loss is required")
        ELSE IF ~Falsy(take_profit_price)
                /\ FLt(rr_ratio, limits.min_risk_reward_ratio)
            THEN Denied("Risk-reward too low")
        ELSE [approved |-> TRUE, reason |-> "none"]

----------------------------------------------------------------------------
(* The calls, as actions.  last.pre is the status the account had when the *)
(* call was made ("untracked" when the dict had no entry for it).          *)

StatusOf(st, u) == IF u \in DOMAIN st THEN st[u].status ELSE "untracked"

Called(op, u, out) ==
    [op |-> op, user |-> u, pre |-> StatusOf(cb_state, u), out |-> out,
     allowed |-> FALSE, reason |-> NoneStr, dur |-> NoneTime, order |-> FALSE]

\* No calculate_position_size / validate_trade call has been made
NoSized == [confidence |-> FZero, result |-> Raised("not called")]
NoValidated ==
    [position_size_usd |-> FZero, stop_loss_price |-> NoneFloat,
     take_profit_price |-> NoneFloat, result |-> Denied("not called")]

\* PortfolioMetrics of an account with no trades
EmptyMetrics ==
    [total_equity |-> FZero, daily_pnl |-> FZero, weekly_pnl |-> FZero,
     open_positions_count |-> 0, portfolio_heat |-> FZero, consecutive_losses |-> 0]

\* No execute_signal / open_trade coroutine is in flight
NoRequest == [pc |-> "idle", op |-> "none", user |-> "none", row |-> 0]
NoRequests == [r \in 1..MaxRequests |-> NoRequest]

\* No kill_switch coroutine is in flight
NoTask == [pc |-> "idle", user |-> "none", returned |-> "none"]

InitCB ==
    /\ cb_state = << >>
    /\ now = 0
    /\ trades = << >>
    /\ kill_task = NoTask
    /\ exec_tasks = NoRequests
    /\ last = [op |-> "init", user |-> "none", pre |-> "untracked", out |-> "ok",
               allowed |-> FALSE, reason |-> NoneStr, dur |-> NoneTime, order |-> FALSE]

Init ==
    /\ InitCB
    /\ risk_in = [limits |-> RiskLimits, metrics |-> EmptyMetrics,
                  entry_price |-> FromInt(100), stop_loss_price |-> FromInt(95)]
    /\ sized = NoSized
    /\ validated = NoValidated
    /\ risk_settings = << >>

Advance ==
    /\ now + TickSeconds <= MaxTime
    /\ now' = now + TickSeconds
    /\ UNCHANGED <<cb_state, trades, last>>
    /\ UNCHANGED <<riskvars, kill_task, exec_tasks>>

IsTradingAllowed(u) ==
    LET st1 == get_state(cb_state, u)
        r == is_trading_allowed(st1[u])
    IN  /\ cb_state' = st1
        /\ last' = [Called("is_trading_allowed", u, "ok") EXCEPT
                        !.allowed = r.allowed, !.reason = r.reason]
        /\ UNCHANGED <<now, trades>>
        /\ UNCHANGED <<riskvars, kill_task, exec_tasks>>

PauseTrading(u) ==
    \E reason \in Reasons, d \in Durations :
        /\ cb_state' = pause_trading(cb_state, u, reason, <<u>>, d, now)
        /\ last' = [Called("pause_trading", u, "ok") EXCEPT !.dur = d]
        /\ UNCHANGED <<now, trades>>
        /\ UNCHANGED <<riskvars, kill_task, exec_tasks>>

ResumeTrading(u) ==
    /\ cb_state' = resume_trading(cb_state, u)
    /\ last' = Called("resume_trading", u,
                      IF resume_raises(cb_state, u) THEN "ValueError" ELSE "ok")
    /\ UNCHANGED <<now, trades>>
    /\ UNCHANGED <<riskvars, kill_task, exec_tasks>>

KillSwitchCall(u, close_positions) ==
    /\ cb_state' = kill_switch(cb_state, u, now)
    /\ trades' = kill_switch_trades(trades, u, close_positions)
    /\ last' = Called("kill_switch", u, "ok")
    /\ UNCHANGED now
    /\ UNCHANGED <<riskvars, kill_task, exec_tasks>>

KillSwitch(u) == \E close_positions \in BOOLEAN : KillSwitchCall(u, close_positions)

DeactivateKillSwitch(u) ==
    /\ cb_state' = deactivate_kill_switch(cb_state, u)
    /\ last' = Called("deactivate_kill_switch", u, "ok")
    /\ UNCHANGED <<now, trades>>
    /\ UNCHANGED <<riskvars, kill_task, exec_tasks>>

CheckAutoTriggers(u) ==
    /\ cb_state' = check_auto_triggers(cb_state, u, now)
    /\ last' = Called("check_auto_triggers", u, "ok")
    /\ UNCHANGED <<now, trades>>
    /\ UNCHANGED <<riskvars, kill_task, exec_tasks>>

UpdateSystemHealth ==
    \E health \in SystemHealth, reason \in HealthReasons :
        /\ cb_state' = update_system_health(cb_state, health, reason, now)
        /\ last' = [op |-> "update_system_health", user |-> "none", pre |-> "untracked",
                    out |-> "ok", allowed |-> FALSE, reason |-> NoneStr,
                    dur |-> NoneTime, order |-> FALSE]
        /\ UNCHANGED <<now, trades>>
        /\ UNCHANGED <<riskvars, kill_task, exec_tasks>>

ExecuteSignal(u) ==
    \E can_trade \in BOOLEAN, balance \in BOOLEAN, key_ok \in BOOLEAN,
       exch \in ExchangeOutcomes :
        LET raised == execute_signal_raises(trades, u, can_trade, balance)
            opened == open_position(key_ok, exch)
        IN  /\ Len(trades) < MaxTrades
            /\ IF raised # "ok"
                   THEN /\ trades' = trades
                        /\ last' = Called("execute_signal", u, raised)
                   ELSE /\ trades' = Append(trades,
                                        IF opened.status = OPEN
                                            THEN Opened(Trade(u, OPENING))
                                            ELSE Trade(u, opened.status))
                        /\ last' = [Called("execute_signal", u, "ok") EXCEPT
                                        !.order = opened.order]
            /\ UNCHANGED <<cb_state, now>>
            /\ UNCHANGED <<riskvars, kill_task, exec_tasks>>

OpenTrade(u) ==
    \E can_trade \in BOOLEAN, balance \in BOOLEAN, price \in BOOLEAN,
       key_ok \in BOOLEAN, exch \in ExchangeOutcomes :
        LET raised == open_trade_raises(trades, u, can_trade, balance, price)
            opened == open_position(key_ok, exch)
        IN  /\ Len(trades) < MaxTrades
            /\ IF raised # "ok"
                   THEN /\ trades' = trades
                        /\ last' = Called("open_trade", u, raised)
                   ELSE /\ trades' = Append(trades,
                                        IF opened.status = OPEN
                                            THEN Opened(Trade(u, OPENING))
                                            ELSE Trade(u, opened.status))
                        /\ last' = [Called("open_trade", u, "ok") EXCEPT
                                        !.order = opened.order]
            /\ UNCHANGED <<cb_state, now>>
            /\ UNCHANGED <<riskvars, kill_task, exec_tasks>>

Next ==
    \/ Advance
    \/ UpdateSystemHealth
    \/ \E u \in Users :
        \/ IsTradingAllowed(u)
        \/ PauseTrading(u)
        \/ ResumeTrading(u)
        \/ KillSwitch(u)
        \/ DeactivateKillSwitch(u)
        \/ CheckAutoTriggers(u)

Spec == Init /\ [][Next]_vars

NextExec ==
    \E u \in Users :
        \/ ExecuteSignal(u)
        \/ OpenTrade(u)
        \/ IsTradingAllowed(u)
        \/ PauseTrading(u)
        \/ ResumeTrading(u)
        \/ KillSwitch(u)
        \/ DeactivateKillSwitch(u)

SpecExec == Init /\ [][NextExec]_vars

----------------------------------------------------------------------------
(* SpecRisk: the sizer and the validator on drawn limits and metrics *)

\* RiskLimits a settings row can hold: the defaults under each sizing method,
\* with the pause flag set, with a minimum risk-reward ratio of 2, and risk
\* parity with the percent cap at 100
LimitsSet ==
    {[RiskLimits EXCEPT !.position_sizing_method = m] : m \in PositionSizingMethod}
    \cup {[RiskLimits EXCEPT !.trading_paused = TRUE],
          [RiskLimits EXCEPT !.min_risk_reward_ratio = FromInt(2)],
          [RiskLimits EXCEPT !.position_sizing_method = RISK_PARITY,
                             !.max_position_size_percent = FromInt(100)]}

\* PortfolioMetrics: negative, zero, small and large equity; no loss today, a
\* small one and one above max_daily_loss_usd; a weekly loss; a full and an
\* empty book; a losing streak; heat at the limit, alone and together with a
\* full book, a losing streak or a daily loss; and an untroubled account with
\* an equity of 10000
MetricsSet ==
    [total_equity : {FromInt(-100), FZero, FromInt(827), FromInt(200000)},
     daily_pnl : {FZero, FromInt(-50), FromInt(-600)},
     weekly_pnl : {FZero, FromInt(-25000)},
     open_positions_count : {0, 5},
     portfolio_heat : {FZero},
     consecutive_losses : {0, 3}]
    \cup {[m EXCEPT !.total_equity = e, !.portfolio_heat = FromInt(50)] :
            e \in {FromInt(-100), FZero, FromInt(827), FromInt(200000)},
            m \in {EmptyMetrics,
                   [EmptyMetrics EXCEPT !.open_positions_count = 5],
                   [EmptyMetrics EXCEPT !.consecutive_losses = 3],
                   [EmptyMetrics EXCEPT !.daily_pnl = FromInt(-600)]}}
    \cup {[EmptyMetrics EXCEPT !.total_equity = FromInt(10000)]}

Confidences == {FZero, FDiv(FromInt(7), FromInt(10)), FromInt(1)}

InitRisk ==
    /\ InitCB
    /\ risk_in \in [limits : LimitsSet, metrics : MetricsSet,
                     entry_price : {FromInt(100)},
                     stop_loss_price : {FromInt(95), FromInt(100)}]
    /\ sized = NoSized
    /\ validated = NoValidated
    /\ risk_settings = << >>

CalculatePositionSize ==
    \E c \in Confidences :
        /\ sized' = [confidence |-> c,
                     result |-> calculate_position_size(risk_in.limits, risk_in.metrics,
                                    risk_in.entry_price, risk_in.stop_loss_price, c)]
        /\ validated' = NoValidated
        /\ UNCHANGED <<risk_in, risk_settings, cbvars>>

\* validate_trade on the size the sizer returned or on a size of the caller's,
\* with or without a stop, with no take-profit, one at 1.5 times the risk and
\* one at a fifth of it
ValidateTrade ==
    \E size \in {sized.result.position_size_usd, FromInt(1000), FromInt(20000)},
       stop \in {risk_in.stop_loss_price, NoneFloat},
       tp \in {NoneFloat, <<215, -1>>, FromInt(101)} :
        /\ validated' = [position_size_usd |-> size, stop_loss_price |-> stop,
                         take_profit_price |-> tp,
                         result |-> validate_trade(risk_in.limits, risk_in.metrics, size,
                                        risk_in.entry_price, stop, tp)]
        /\ UNCHANGED <<risk_in, sized, risk_settings, cbvars>>

NextRisk ==
    \/ CalculatePositionSize
    \/ ValidateTrade

SpecRisk == InitRisk /\ [][NextRisk]_vars

----------------------------------------------------------------------------
(* Circuit breaker: state machine *)

\* C1: once an account is Killed, its status changes only through
\* deactivate_kill_switch (no pause, resume, check_auto_triggers or
\* update_system_health call moves it to Paused or Active).
C1_KilledLeavesOnlyByDeactivate ==
    [][\A u \in Users :
        (StatusOf(cb_state, u) = KILLED /\ StatusOf(cb_state', u) # KILLED)
            => (last'.op = "deactivate_kill_switch" /\ last'.user = u)]_vars

\* C3: after pause_trading(u, reason, duration_seconds = d) with d > 0, a
\* check_auto_triggers(u) made next, at or after paused_at + d, makes u Active.
C3_AutoResumeAfterDeadline ==
    [][\A u \in Users :
        (/\ CheckAutoTriggers(u)
         /\ last.op = "pause_trading" /\ last.user = u /\ last.dur > 0
         /\ now >= cb_state[u].auto_resume_at)
            => cb_state'[u].status = ACTIVE]_vars

\* C4: resume_trading on a Killed account raises ValueError and leaves every
\* field of the account's state (and of every other account) unchanged.
C4_ResumeOnKilledFails ==
    [][\A u \in Users :
        (ResumeTrading(u) /\ StatusOf(cb_state, u) = KILLED)
            => (last'.out = "ValueError" /\ cb_state' = cb_state)]_vars

C4_Witness ==
    last.op = "resume_trading" /\ last.pre = KILLED /\ last.out = "ValueError"

\* C5: kill_switch succeeds from every prior state and leaves the account
\* Killed; called right after a kill_switch on the same account it leaves
\* status, paused_reason and paused_by as they were.
C5_KillSwitchIdempotent ==
    [][\A u \in Users :
        KillSwitch(u) =>
            /\ last'.out = "ok"
            /\ cb_state'[u].status = KILLED
            /\ (last.op = "kill_switch" /\ last.user = u) =>
                    /\ cb_state'[u].status = cb_state[u].status
                    /\ cb_state'[u].paused_reason = cb_state[u].paused_reason
                    /\ cb_state'[u].paused_by = cb_state[u].paused_by]_vars

C5_Witness ==
    /\ last.op = "kill_switch" /\ last.pre = KILLED /\ last.out = "ok"
    /\ cb_state[last.user].paused_at > 0

\* C6: is_trading_allowed returns true exactly when the status is Active and
\* the health is Healthy or Degraded; the status is examined before the
\* health: Killed gives the kill-switch reason, Paused the stored
\* paused_reason, Critical or Offline health a system-health reason.
C6_TradingAllowedIffActiveAndHealthy ==
    last.op = "is_trading_allowed" =>
        LET s == cb_state[last.user]
        IN  /\ last.allowed <=>
                (s.status = ACTIVE /\ s.system_health \in {HEALTHY, DEGRADED})
            /\ last.allowed => last.reason = NoneStr
            /\ s.status = KILLED =>
                    last.reason = <<"Circuit breaker: Kill switch activated">>
            /\ s.status = PAUSED =>
                    last.reason = <<"Trading paused: ">> \o s.paused_reason
            /\ (s.status = ACTIVE /\ s.system_health = CRITICAL) =>
                    last.reason = <<"System health: Critical">>
            /\ (s.status = ACTIVE /\ s.system_health = OFFLINE) =>
                    last.reason = <<"System offline">>

C6_Witness ==
    /\ last.op = "is_trading_allowed" /\ ~last.allowed
    /\ cb_state[last.user].status = KILLED
    /\ cb_state[last.user].system_health = CRITICAL

----------------------------------------------------------------------------
(* Trade execution *)

\* C2: an order is placed (execute_signal or open_trade reaching
\* place_market_order) only for an account whose circuit breaker allows
\* trading; in particular never for an account that is Paused or Killed.
C2_NoOrderWhilePausedOrKilled ==
    last.order => StatusOf(cb_state, last.user) \notin {PAUSED, KILLED}


----------------------------------------------------------------------------
(* SpecApi: the risk settings endpoints, and the sizer and the validator   *)
(* as the service runs them: on get_risk_limits and get_portfolio_metrics. *)

\* RiskSettings(id, user_id): the column defaults, which are the RiskLimits
\* defaults (the auto-trading columns, which no modelled code reads, left out)
NewRiskSettings == RiskLimits

\* UpdateRiskSettingsRequest bodies, as model_dump(exclude_unset=True) gives them
UpdateRequests ==
    {[trading_paused |-> TRUE], [trading_paused |-> FALSE],
     [position_sizing_method |-> RISK_PARITY]}

\* update_risk_settings, lines 93-110
update_risk_settings(rs, u, data) ==
    LET row == IF u \in DOMAIN rs THEN rs[u] ELSE NewRiskSettings
        new == [f \in DOMAIN row |-> IF f \in DOMAIN data THEN data[f] ELSE row[f]]
    IN  IF u \in DOMAIN rs THEN [rs EXCEPT ![u] = new] ELSE rs @@ (u :> new)

\* get_risk_settings, lines 69-81
get_risk_settings(rs, u) ==
    IF u \in DOMAIN rs THEN rs ELSE rs @@ (u :> NewRiskSettings)

\* A closed trade of account u with realized P&L pnl, closed at time t
ClosedTrade(u, pnl, t) ==
    [Trade(u, CLOSED) EXCEPT !.entry_price = Dec(100), !.margin_used = Dec(100),
                             !.realized_pnl = Dec(pnl), !.closed_at = t]

\* The time of the requests: Wednesday 2024-01-03 12:00 UTC
RequestTime == 2 * DaySeconds + DaySeconds \div 2

\* The length of a losing streak longer than the ten trades line 167 reads
LongStreak == 11

\* Ledgers the executor and the position sync can leave behind: no trade; a
\* win today; a loss today after a win yesterday; three losses in a row; an
\* open position with margin; a failed trade; LongStreak losses in a row; a
\* loss followed by a position the sync closed without a realized P&L
LedgerSet ==
    {<< >>,
     <<ClosedTrade("u1", 50, RequestTime - 60)>>,
     <<ClosedTrade("u1", 500, RequestTime - DaySeconds), ClosedTrade("u1", -30, RequestTime - 60)>>,
     <<ClosedTrade("u1", -10, RequestTime - 180), ClosedTrade("u1", -10, RequestTime - 120),
       ClosedTrade("u1", -10, RequestTime - 60)>>,
     <<Opened(Trade("u1", OPENING)), ClosedTrade("u2", 50, RequestTime - 60)>>,
     <<Trade("u2", FAILED)>>,
     [i \in 1..LongStreak |-> ClosedTrade("u1", -10, RequestTime - 60 * i)],
     <<ClosedTrade("u2", -10, RequestTime - 120),
       [ClosedTrade("u2", 0, RequestTime - 60) EXCEPT !.realized_pnl = NoneNum]>>}

InitApi ==
    /\ cb_state = << >>
    /\ kill_task = NoTask
    /\ exec_tasks = NoRequests
    /\ now = RequestTime
    /\ trades \in LedgerSet
    /\ last = [op |-> "init", user |-> "none", pre |-> "untracked", out |-> "ok",
               allowed |-> FALSE, reason |-> NoneStr, dur |-> NoneTime, order |-> FALSE]
    /\ risk_in = [limits |-> RiskLimits, metrics |-> EmptyMetrics,
                  entry_price |-> FromInt(100), stop_loss_price |-> FromInt(95)]
    /\ sized = NoSized
    /\ validated = NoValidated
    /\ risk_settings = << >>

\* PATCH /risk/settings
ApiUpdateRiskSettings(u) ==
    \E data \in UpdateRequests :
        /\ risk_settings' = update_risk_settings(risk_settings, u, data)
        /\ last' = Called("update_risk_settings", u, "ok")
        /\ sized' = NoSized
        /\ validated' = NoValidated
        /\ UNCHANGED <<cb_state, now, trades, risk_in, kill_task, exec_tasks>>

\* GET /risk/settings
ApiGetRiskSettings(u) ==
    /\ risk_settings' = get_risk_settings(risk_settings, u)
    /\ last' = Called("get_risk_settings", u, "ok")
    /\ sized' = NoSized
    /\ validated' = NoValidated
    /\ UNCHANGED <<cb_state, now, trades, risk_in, kill_task, exec_tasks>>

\* POST /risk/calculate-position-size: RiskManagementService.calculate_position_size
ApiCalculatePositionSize(u) ==
    \E c \in Confidences, stop \in {FromInt(95), FromInt(100)} :
        LET limits == get_risk_limits(u)
            m == get_portfolio_metrics(trades, u, now)
            result == IF m.raised # "none"
                          THEN Raised(m.raised)
                          ELSE calculate_position_size(limits, m, FromInt(100), stop, c)
        IN  /\ sized' = [confidence |-> c, result |-> result]
            /\ validated' = NoValidated
            /\ last' = Called("calculate_position_size", u,
                              IF result.raised = "none" THEN "ok" ELSE result.raised)
            /\ UNCHANGED <<cb_state, now, trades, risk_in, risk_settings, kill_task,
                         exec_tasks>>

\* RiskManagementService.validate_trade, called on a trade of the caller's
ServiceValidateTrade(u) ==
    \E size \in {FZero, FromInt(5)}, stop \in {FromInt(95), NoneFloat},
       tp \in {NoneFloat, <<215, -1>>} :
        LET limits == get_risk_limits(u)
            m == get_portfolio_metrics(trades, u, now)
            result == IF m.raised # "none"
                          THEN Denied(m.raised)
                          ELSE validate_trade(limits, m, size, FromInt(100), stop, tp)
        IN  /\ validated' = [position_size_usd |-> size, stop_loss_price |-> stop,
                             take_profit_price |-> tp, result |-> result]
            /\ sized' = NoSized
            /\ last' = Called("validate_trade", u,
                              IF m.raised = "none" THEN "ok" ELSE m.raised)
            /\ UNCHANGED <<cb_state, now, trades, risk_in, risk_settings, kill_task,
                         exec_tasks>>

NextApi ==
    \E u \in Users :
        \/ ApiUpdateRiskSettings(u)
        \/ ApiGetRiskSettings(u)
        \/ ApiCalculatePositionSize(u)
        \/ ServiceValidateTrade(u)

SpecApi == InitApi /\ [][NextApi]_vars

----------------------------------------------------------------------------
(* Risk policy *)

\* C7: while the account's stored risk policy has trading_paused = true,
\* calculate_position_size and validate_trade for that account both reject.
C7_PausedPolicyRejects ==
    \A u \in DOMAIN risk_settings :
        (risk_settings[u].trading_paused /\ last.user = u) =>
            /\ last.op = "calculate_position_size" => ~sized.result.approved
            /\ last.op = "validate_trade" => ~validated.result.approved

----------------------------------------------------------------------------
(* Position sizing and trade validation *)

SizerCalled == sized.result.raised # "not called"
ValidatorCalled == validated.result.reason # "not called"
LossStreak == risk_in.metrics.consecutive_losses >= risk_in.limits.max_consecutive_losses

\* C8 (as stated): with consecutive_losses >= max_consecutive_losses the sizer
\* and the validator both reject, each with its consecutive-losses reason.
C8_BothRejectWithLossStreakReason ==
    LossStreak =>
        /\ SizerCalled =>
                /\ ~sized.result.approved
                /\ sized.result.rejection_reason = "Circuit breaker: consecutive losses"
        /\ ValidatorCalled =>
                /\ ~validated.result.approved
                /\ validated.result.reason = "Consecutive losses"

\* C8 (amended): with consecutive_losses >= max_consecutive_losses the sizer
\* and the validator both reject without raising; the reason is the
\* consecutive-losses reason when no earlier check of the same function
\* fails: the policy pause for the sizer; the policy pause, the open-position
\* count, the daily loss limits and the weekly loss limit for the validator.
C8_BothRejectOnLossStreak ==
    LossStreak =>
        /\ SizerCalled =>
                /\ ~sized.result.approved
                /\ sized.result.raised = "none"
                /\ ~risk_in.limits.trading_paused =>
                        sized.result.rejection_reason = "Circuit breaker: consecutive losses"
        /\ ValidatorCalled =>
                /\ ~validated.result.approved
                /\ (/\ ~risk_in.limits.trading_paused
                    /\ risk_in.metrics.open_positions_count < risk_in.limits.max_open_positions
                    /\ daily_loss_denial(risk_in.limits, risk_in.metrics) = "none"
                    /\ weekly_loss_denial(risk_in.limits, risk_in.metrics) = "none")
                        => validated.result.reason = "Consecutive losses"

C8_Witness ==
    /\ LossStreak
    /\ SizerCalled /\ sized.result.rejection_reason = "Circuit breaker: consecutive losses"
    /\ ValidatorCalled /\ validated.result.reason = "Consecutive losses"

\* C9: whatever the sizing method, the result of calculate_position_size has
\* position_size_usd <= max_position_size_usd and
\* position_size_percent <= max_position_size_percent.
C9_SizeWithinCaps ==
    (SizerCalled /\ sized.result.raised = "none") =>
        /\ FLe(sized.result.position_size_usd, risk_in.limits.max_position_size_usd)
        /\ FLe(sized.result.position_size_percent, risk_in.limits.max_position_size_percent)

\* C10: under RISK_PARITY a request whose stop equals its entry is rejected:
\* the call returns approved = false and does not raise.
C10_RiskParityZeroStopRejected ==
    (/\ SizerCalled
     /\ risk_in.limits.position_sizing_method = RISK_PARITY
     /\ risk_in.stop_loss_price = risk_in.entry_price) =>
        /\ sized.result.raised = "none"
        /\ ~sized.result.approved

----------------------------------------------------------------------------
(* Trade validation: the order of the checks *)

\* position_size_usd / total_equity * 100 of the validated trade (0 when the
\* equity is not positive)
ValidatedPercent ==
    IF FGt(risk_in.metrics.total_equity, FZero)
        THEN FMul(FDiv(validated.position_size_usd, risk_in.metrics.total_equity), F100)
        ELSE FZero

\* Checks 1 to 6 of the validator pass for the validated trade
ChecksBeforeStopPass ==
    /\ ~risk_in.limits.trading_paused
    /\ risk_in.metrics.open_positions_count < risk_in.limits.max_open_positions
    /\ \/ ~FLt(risk_in.metrics.daily_pnl, FZero)
       \/ /\ FLt(FAbs(risk_in.metrics.daily_pnl), risk_in.limits.max_daily_loss_usd)
          /\ \/ ~FGt(risk_in.metrics.total_equity, FZero)
             \/ FLt(FMul(FDiv(FAbs(risk_in.metrics.daily_pnl), risk_in.metrics.total_equity),
                         F100), risk_in.limits.max_daily_loss_percent)
    /\ \/ ~FLt(risk_in.metrics.weekly_pnl, FZero)
       \/ ~FGt(risk_in.metrics.total_equity, FZero)
       \/ FLt(FMul(FDiv(FAbs(risk_in.metrics.weekly_pnl), risk_in.metrics.total_equity),
                   F100), risk_in.limits.max_weekly_loss_percent)
    /\ risk_in.metrics.consecutive_losses < risk_in.limits.max_consecutive_losses
    /\ FLe(validated.position_size_usd, risk_in.limits.max_position_size_usd)
    /\ FLe(ValidatedPercent, risk_in.limits.max_position_size_percent)

\* C11: validate_trade with stop_loss_price = None never approves, and when
\* checks 1 to 6 pass the reason is "Stop loss is required", whatever the
\* take-profit.
C11_NoStopNeverApproved ==
    (ValidatorCalled /\ validated.stop_loss_price = NoneFloat) =>
        /\ ~validated.result.approved
        /\ ChecksBeforeStopPass => validated.result.reason = "Stop loss is required"

C11_Witness ==
    /\ ValidatorCalled /\ validated.stop_loss_price = NoneFloat
    /\ validated.take_profit_price # NoneFloat
    /\ ChecksBeforeStopPass
    /\ validated.result.reason = "Stop loss is required"

\* The ten checks of the validator in the order the specification lists them,
\* each with whether it fails for the validated trade and the reason it gives
ValidatorChecks ==
    LET l == risk_in.limits
        m == risk_in.metrics
        loss_today == FLt(m.daily_pnl, FZero)
        percent_of_equity(x) ==
            IF FGt(m.total_equity, FZero) THEN FMul(FDiv(x, m.total_equity), F100) ELSE FZero
        risk == FAbs(FSub(risk_in.entry_price, validated.stop_loss_price))
        reward == FAbs(FSub(validated.take_profit_price, risk_in.entry_price))
        rr == IF FGt(risk, FZero) THEN FDiv(reward, risk) ELSE FZero
    IN  << <<l.trading_paused, "Trading is paused">>,
           <<m.open_positions_count >= l.max_open_positions, "Max open positions">>,
           <<loss_today /\ FGe(FAbs(m.daily_pnl), l.max_daily_loss_usd), "Daily loss limit">>,
           <<loss_today /\ FGe(percent_of_equity(FAbs(m.daily_pnl)), l.max_daily_loss_percent),
             "Daily loss %">>,
           <<FLt(m.weekly_pnl, FZero)
                /\ FGe(percent_of_equity(FAbs(m.weekly_pnl)), l.max_weekly_loss_percent),
             "Weekly loss limit">>,
           <<m.consecutive_losses >= l.max_consecutive_losses, "Consecutive losses">>,
           <<FGt(validated.position_size_usd, l.max_position_size_usd), "Position too large">>,
           <<FGt(ValidatedPercent, l.max_position_size_percent), "Position % too large">>,
           <<validated.stop_loss_price = NoneFloat \/ IsZero(validated.stop_loss_price),
             "Stop loss is required">>,
           <<validated.take_profit_price # NoneFloat /\ ~IsZero(validated.take_profit_price)
                /\ FLt(rr, l.min_risk_reward_ratio),
             "Risk-reward too low">> >>

\* The reason of the first failing check of a list, "none" when all pass
FirstFailing(checks) ==
    IF \E i \in DOMAIN checks : checks[i][1]
        THEN checks[CHOOSE i \in DOMAIN checks :
                        checks[i][1] /\ \A j \in 1..(i - 1) : ~checks[j][1]][2]
        ELSE "none"

\* C12: validate_trade returns the reason of the first failing check in the
\* order pause, open positions, daily loss in dollars, daily loss in percent,
\* weekly loss, consecutive losses, size, size percent, missing stop,
\* risk-reward, and approves when none fails; so a daily loss at or above
\* max_daily_loss_usd, checks 1-2 passing, gives the dollar-limit reason.
C12_FirstFailingCheckWins ==
    ValidatorCalled =>
        /\ validated.result.reason = FirstFailing(ValidatorChecks)
        /\ validated.result.approved <=> FirstFailing(ValidatorChecks) = "none"
        /\ (/\ ~risk_in.limits.trading_paused
            /\ risk_in.metrics.open_positions_count < risk_in.limits.max_open_positions
            /\ FLt(risk_in.metrics.daily_pnl, FZero)
            /\ FGe(FAbs(risk_in.metrics.daily_pnl), risk_in.limits.max_daily_loss_usd))
                => validated.result.reason = "Daily loss limit"

\* daily_pnl = -600 on an equity of 200000: 0.3 percent, below the 5 percent limit
C12_Witness ==
    /\ ValidatorCalled
    /\ risk_in.metrics.daily_pnl = FromInt(-600)
    /\ risk_in.metrics.total_equity = FromInt(200000)
    /\ risk_in.limits.max_daily_loss_usd = FromInt(500)
    /\ validated.result.reason = "Daily loss limit"

----------------------------------------------------------------------------
(* Position sizing: the order of the checks *)

\* The five checks the sizer makes before it computes a size, in the order
\* the specification lists them
SizerChecks ==
    LET l == risk_in.limits
        m == risk_in.metrics
        loss_percent ==
            IF FGt(m.total_equity, FZero) /\ FLt(m.daily_pnl, FZero)
                THEN FMul(FDiv(FAbs(m.daily_pnl), m.total_equity), F100)
                ELSE FZero
    IN  << <<l.trading_paused, "Trading is paused by circuit breaker">>,
           <<m.consecutive_losses >= l.max_consecutive_losses,
             "Circuit breaker: consecutive losses">>,
           <<FGe(loss_percent, l.max_daily_loss_percent), "Daily loss limit reached">>,
           <<m.open_positions_count >= l.max_open_positions, "Max open positions reached">>,
           <<FLt(<<3, -1>>, l.min_risk_reward_ratio), "Risk-reward ratio too low">> >>

\* C13: a calculate_position_size call that returns gives the reason of the
\* first failing check in the order pause, consecutive losses, daily loss
\* percent, open positions, risk-reward 1.5 against the minimum, portfolio
\* heat; an approved size keeps the heat within max_portfolio_heat; and a
\* rejected result has position_size_usd, position_size_percent and
\* risk_amount all 0.
C13_SizerFirstFailingCheckWins ==
    (SizerCalled /\ sized.result.raised = "none") =>
        LET r == sized.result
            m == risk_in.metrics
        IN  /\ FirstFailing(SizerChecks) # "none" =>
                    /\ ~r.approved
                    /\ r.rejection_reason = FirstFailing(SizerChecks)
            /\ FirstFailing(SizerChecks) = "none" =>
                    \/ r.approved /\ r.rejection_reason = "none"
                    \/ /\ ~r.approved
                       /\ r.rejection_reason = "Portfolio heat limit exceeded"
                       /\ FGt(m.total_equity, FZero)
            /\ (r.approved /\ FGt(m.total_equity, FZero)) =>
                    FLe(FAdd(m.portfolio_heat,
                             FMul(FDiv(r.risk_amount, m.total_equity), F100)),
                        risk_in.limits.max_portfolio_heat)
            /\ ~r.approved =>
                    /\ r.position_size_usd = FZero
                    /\ r.position_size_percent = FZero
                    /\ r.risk_amount = FZero

C13_Witness ==
    /\ SizerCalled
    /\ FirstFailing(SizerChecks) = "none"
    /\ sized.result.rejection_reason = "Portfolio heat limit exceeded"
    /\ sized.result.risk_amount = FZero

----------------------------------------------------------------------------
(* The risk policy accessor *)

\* C14: for an account with a stored risk policy get_risk_limits returns
\* that policy (the values the settings update stored).
C14_LimitsAreStoredPolicy ==
    \A u \in DOMAIN risk_settings : get_risk_limits(u) = risk_settings[u]

----------------------------------------------------------------------------
(* Circuit breaker: system health *)

\* C15: update_system_health(h, reason) sets system_health = h on every
\* tracked account and tracks no new one; when h is Critical every account
\* that was Active becomes Paused with reason "System health critical:
\* <reason>", paused_by "system", paused_at the time of the call and no
\* auto_resume_at; every other account keeps its status and pause fields.
C15_HealthUpdatePausesActive ==
    [][UpdateSystemHealth =>
        /\ DOMAIN cb_state' = DOMAIN cb_state
        /\ \E h \in SystemHealth, r \in HealthReasons :
            \A u \in DOMAIN cb_state :
                LET old == cb_state[u]
                    new == cb_state'[u]
                IN  /\ new.system_health = h
                    /\ IF h = CRITICAL /\ old.status = ACTIVE
                           THEN /\ new.status = PAUSED
                                /\ new.paused_reason =
                                        <<"System health critical: ">> \o Fmt(r)
                                /\ new.paused_by = <<"system">>
                                /\ new.paused_at = now
                                /\ new.auto_resume_at = NoneTime
                           ELSE /\ new.status = old.status
                                /\ new.paused_reason = old.paused_reason
                                /\ new.paused_by = old.paused_by
                                /\ new.paused_at = old.paused_at
                                /\ new.auto_resume_at = old.auto_resume_at]_vars

\* After a Critical update: one account paused by the system, one left
\* paused by its user, one left Killed
C15_Witness ==
    /\ last.op = "update_system_health"
    /\ \E u, v \in DOMAIN cb_state :
        /\ cb_state[u].status = PAUSED /\ cb_state[u].paused_by = <<"system">>
        /\ cb_state[u].system_health = CRITICAL
        /\ cb_state[v].system_health = CRITICAL
        /\ \/ cb_state[v].status = KILLED
           \/ cb_state[v].status = PAUSED /\ cb_state[v].paused_by = <<v>>

----------------------------------------------------------------------------
(* Sizer and validator against each other *)

\* The validated trade has a take-profit whose reward over risk is at least
\* min_risk_reward_ratio
TakeProfitMeetsRatio ==
    LET risk == FAbs(FSub(risk_in.entry_price, validated.stop_loss_price))
        reward == FAbs(FSub(validated.take_profit_price, risk_in.entry_price))
    IN  /\ validated.take_profit_price # NoneFloat
        /\ validated.stop_loss_price # NoneFloat
        /\ FGt(risk, FZero)
        /\ FGe(FDiv(reward, risk), risk_in.limits.min_risk_reward_ratio)

\* C16: when calculate_position_size approved a size for (entry, stop),
\* validate_trade on the same limits and snapshot, with that size, the same
\* entry and stop and a take-profit that meets min_risk_reward_ratio, approves.
C16_ValidatorApprovesSizedTrade ==
    (/\ SizerCalled /\ sized.result.approved
     /\ ValidatorCalled
     /\ validated.position_size_usd = sized.result.position_size_usd
     /\ validated.stop_loss_price = risk_in.stop_loss_price
     /\ TakeProfitMeetsRatio)
        => validated.result.approved

----------------------------------------------------------------------------
(* SpecConc: calls made concurrently on one CircuitBreakerService.  The     *)
(* service runs on one asyncio event loop, so a coroutine runs alone until  *)
(* it awaits I/O.  get_state awaits nothing: pause_trading and              *)
(* resume_trading run in one step.  kill_switch(close_positions = True)     *)
(* suspends twice, at db.execute (line 168) and at db.commit (line 186),    *)
(* after it has written the state at lines 160-164.                         *)

\* kill_switch, lines 160-168: the state is written, the select is awaited
KillSwitchStart(u) ==
    /\ kill_task.pc \in {"idle", "done"}
    /\ cb_state' = kill_switch(cb_state, u, now)
    /\ kill_task' = [pc |-> "select", user |-> u, returned |-> "none"]
    /\ UNCHANGED <<now, trades, last, riskvars, exec_tasks>>

\* kill_switch, lines 174-186: the selected trades are marked, the commit is
\* awaited
KillSwitchMarkTrades ==
    /\ kill_task.pc = "select"
    /\ trades' = kill_switch_trades(trades, kill_task.user, TRUE)
    /\ kill_task' = [kill_task EXCEPT !.pc = "commit"]
    /\ UNCHANGED <<cb_state, now, last, riskvars, exec_tasks>>

\* kill_switch, line 191: the state object is returned as it is by then
KillSwitchReturn ==
    /\ kill_task.pc = "commit"
    /\ kill_task' = [kill_task EXCEPT !.pc = "done",
                                      !.returned = cb_state[kill_task.user].status]
    /\ last' = Called("kill_switch", kill_task.user, "ok")
    /\ UNCHANGED <<cb_state, now, trades, riskvars, exec_tasks>>

\* One account has a position open when the calls start
InitConc ==
    /\ cb_state = << >>
    /\ now = 0
    /\ trades = <<Opened(Trade("u1", OPENING))>>
    /\ kill_task = NoTask
    /\ exec_tasks = NoRequests
    /\ last = [op |-> "init", user |-> "none", pre |-> "untracked", out |-> "ok",
               allowed |-> FALSE, reason |-> NoneStr, dur |-> NoneTime, order |-> FALSE]
    /\ risk_in = [limits |-> RiskLimits, metrics |-> EmptyMetrics,
                  entry_price |-> FromInt(100), stop_loss_price |-> FromInt(95)]
    /\ sized = NoSized
    /\ validated = NoValidated
    /\ risk_settings = << >>

NextConc ==
    \/ KillSwitchMarkTrades
    \/ KillSwitchReturn
    \/ \E u \in Users :
        \/ KillSwitchStart(u)
        \/ PauseTrading(u)
        \/ ResumeTrading(u)

SpecConc == InitConc /\ [][NextConc]_vars

\* C17: a kill_switch call that ran concurrently with pause_trading and
\* resume_trading calls reports what it reports in some sequential order of
\* the calls: the state it returns has status Killed.
C17_CompletedKillSwitchReportsKilled ==
    kill_task.pc = "done" => kill_task.returned = KILLED

----------------------------------------------------------------------------
(* Position sizing: the sizes *)

\* C18: an approved size is min(raw, max_position_size_usd, equity *
\* max_position_size_percent / 100), with raw = equity *
\* max_position_size_percent / 100 under FIXED_PERCENT and raw = (equity *
\* 1 / 100) / risk_percent under RISK_PARITY; under FIXED_PERCENT the result
\* is the same for every confidence, and an equity of 10000 at 10 percent
\* gives 1000; under RISK_PARITY entry 100, stop 95 and an equity of 10000
\* give 2000 when the caps allow it and 1000 under the default caps.
C18_ApprovedSizeIsCappedRaw ==
    (SizerCalled /\ sized.result.approved) =>
        LET l == risk_in.limits
            equity == risk_in.metrics.total_equity
            size == sized.result.position_size_usd
            percent_cap == FDiv(FMul(equity, l.max_position_size_percent), F100)
            risk_percent ==
                FDiv(FAbs(FSub(risk_in.entry_price, risk_in.stop_loss_price)),
                     risk_in.entry_price)
            parity == FDiv(FDiv(FMul(equity, FromInt(1)), F100), risk_percent)
            scenario == /\ equity = FromInt(10000)
                        /\ risk_in.entry_price = FromInt(100)
                        /\ risk_in.stop_loss_price = FromInt(95)
        IN  /\ l.position_sizing_method = FIXED_PERCENT =>
                    /\ size = FMin(FMin(percent_cap, l.max_position_size_usd), percent_cap)
                    /\ \A c \in Confidences :
                            calculate_position_size(l, risk_in.metrics, risk_in.entry_price,
                                                    risk_in.stop_loss_price, c) = sized.result
                    /\ (scenario /\ l.max_position_size_percent = FromInt(10)) =>
                            size = FromInt(1000)
            /\ l.position_sizing_method = RISK_PARITY =>
                    /\ size = FMin(FMin(parity, l.max_position_size_usd), percent_cap)
                    /\ scenario => parity = FromInt(2000)
                    /\ (scenario /\ l.max_position_size_percent = FromInt(100)) =>
                            size = FromInt(2000)
                    /\ (scenario /\ l.max_position_size_percent = FromInt(10)) =>
                            size = FromInt(1000)

\* Risk parity on an equity of 10000 with caps that do not bind: 2000
C18_Witness ==
    /\ SizerCalled /\ sized.result.approved
    /\ risk_in.limits.position_sizing_method = RISK_PARITY
    /\ risk_in.limits.max_position_size_percent = FromInt(100)
    /\ risk_in.metrics.total_equity = FromInt(10000)
    /\ risk_in.stop_loss_price = FromInt(95)
    /\ sized.result.position_size_usd = FromInt(2000)

\* The Kelly fraction of the last sizing call and the raw size it gives
KellyFraction == kelly_fraction(sized.confidence)
KellyRaw == FMul(risk_in.metrics.total_equity, KellyFraction)
KellySized == SizerCalled /\ risk_in.limits.position_sizing_method = KELLY_CRITERION

----------------------------------------------------------------------------
(* The portfolio snapshot: consecutive losses *)

\* A closed trade with a realized P&L below zero
IsLoss(t) == t.realized_pnl # NoneNum /\ t.realized_pnl[1] < 0

RECURSIVE ScanStreak(_, _)
\* The trades with index in S scanned newest first by closed_at: the number
\* of losses before the first trade that is not a loss
ScanStreak(tr, S) ==
    IF S = {} THEN 0
    ELSE LET i == CHOOSE j \in S : \A k \in S : tr[j].closed_at >= tr[k].closed_at
         IN  IF IsLoss(tr[i]) THEN 1 + ScanStreak(tr, S \ {i}) ELSE 0

ClosedTradesOf(u) == {i \in DOMAIN trades : trades[i].user = u /\ trades[i].status = CLOSED}

\* C20: the snapshot a sizing or validation call builds has consecutive_losses
\* equal to the number of the account's closed trades, newest first by
\* closed_at, that are losses before the first trade that is not a loss (0
\* with no closed trade or when the newest closed trade was a win).
C20_ConsecutiveLossesIsStreak ==
    \A u \in Users :
        (/\ last.op \in {"calculate_position_size", "validate_trade"} /\ last.user = u
         /\ get_portfolio_metrics(trades, u, now).raised = "none")
            => get_portfolio_metrics(trades, u, now).consecutive_losses
                    = ScanStreak(trades, ClosedTradesOf(u))

----------------------------------------------------------------------------
(* Circuit breaker: the fields of a state *)

PauseFieldsUnset(s) ==
    s.paused_reason = NoneStr /\ s.paused_at = NoneTime /\ s.paused_by = NoneStr
PauseFieldsSet(s) ==
    s.paused_reason # NoneStr /\ s.paused_at # NoneTime /\ s.paused_by # NoneStr

\* C21: in every state of every account, paused_reason, paused_at and
\* paused_by are all None or all set, whatever sequence of pause_trading,
\* resume_trading, kill_switch, deactivate_kill_switch, check_auto_triggers
\* and update_system_health calls was made.
C21_PauseFieldsSetTogether ==
    \A u \in DOMAIN cb_state :
        PauseFieldsUnset(cb_state[u]) \/ PauseFieldsSet(cb_state[u])

\* A paused account has been reset by deactivate_kill_switch while another
\* account holds the fields of a pause made by update_system_health
C21_Witness ==
    /\ last.op = "deactivate_kill_switch" /\ last.pre = PAUSED
    /\ PauseFieldsUnset(cb_state[last.user])
    /\ \E u \in DOMAIN cb_state :
            cb_state[u].paused_by = <<"system">> /\ PauseFieldsSet(cb_state[u])

----------------------------------------------------------------------------
(* SpecCbApi: the circuit-breaker endpoints of api/v1/risk.py.  Every       *)
(* handler builds its own CircuitBreakerService(db), whose _state dict is  *)
(* empty (line 64), calls one method on it and answers with get_statistics *)
(* of the same instance.  cb_state is the dict of the instance of the      *)
(* request served last; the database (trades) is shared by all requests.   *)

\* CircuitBreakerService(db)._state
NewService == << >>

\* get_statistics: the fields of the response the model reads
get_statistics(st, u, tr) ==
    LET s == get_state(st, u)[u]
    IN  [status |-> s.status,
         system_health |-> s.system_health,
         trading_allowed |-> is_trading_allowed(s).allowed,
         paused_reason |-> s.paused_reason,
         open_positions_count |-> count_open_trades(tr, u)]

\* The response of a handler whose instance ends with the dict st
Responded(op, u, st, tr) ==
    [Called(op, u, "ok") EXCEPT !.pre = "untracked",
                                !.allowed = get_statistics(st, u, tr).trading_allowed,
                                !.reason = get_statistics(st, u, tr).paused_reason]

ApiGetCircuitBreakerStatus(u) ==
    /\ cb_state' = get_state(NewService, u)
    /\ last' = Responded("get_circuit_breaker_status", u, cb_state', trades)
    /\ UNCHANGED <<now, trades>>
    /\ UNCHANGED <<riskvars, kill_task, exec_tasks>>

\* PauseTradingRequest: reason is required, duration_seconds is None or > 0
ApiPauseTrading(u) ==
    \E reason \in Reasons, d \in Durations \ {0} :
        /\ cb_state' = pause_trading(NewService, u, reason, <<u>>, d, now)
        /\ last' = [Responded("api_pause_trading", u, cb_state', trades) EXCEPT !.dur = d]
        /\ UNCHANGED <<now, trades>>
        /\ UNCHANGED <<riskvars, kill_task, exec_tasks>>

ApiResumeTrading(u) ==
    /\ cb_state' = resume_trading(NewService, u)
    /\ last' = [Responded("api_resume_trading", u, cb_state', trades) EXCEPT
                    !.out = IF resume_raises(NewService, u) THEN "ValueError" ELSE "ok"]
    /\ UNCHANGED <<now, trades>>
    /\ UNCHANGED <<riskvars, kill_task, exec_tasks>>

ApiActivateKillSwitch(u) ==
    \E close_positions \in BOOLEAN :
        /\ cb_state' = kill_switch(NewService, u, now)
        /\ trades' = kill_switch_trades(trades, u, close_positions)
        /\ last' = Responded("activate_kill_switch", u, cb_state', trades')
        /\ UNCHANGED now
        /\ UNCHANGED <<riskvars, kill_task, exec_tasks>>

ApiDeactivateKillSwitch(u) ==
    /\ cb_state' = deactivate_kill_switch(NewService, u)
    /\ last' = Responded("api_deactivate_kill_switch", u, cb_state', trades)
    /\ UNCHANGED <<now, trades>>
    /\ UNCHANGED <<riskvars, kill_task, exec_tasks>>

\* Each account has a position open when the requests start
InitCbApi ==
    /\ cb_state = NewService
    /\ now = 0
    /\ trades = <<Opened(Trade("u1", OPENING)), Opened(Trade("u2", OPENING))>>
    /\ kill_task = NoTask
    /\ exec_tasks = NoRequests
    /\ last = [op |-> "init", user |-> "none", pre |-> "untracked", out |-> "ok",
               allowed |-> FALSE, reason |-> NoneStr, dur |-> NoneTime, order |-> FALSE]
    /\ risk_in = [limits |-> RiskLimits, metrics |-> EmptyMetrics,
                  entry_price |-> FromInt(100), stop_loss_price |-> FromInt(95)]
    /\ sized = NoSized
    /\ validated = NoValidated
    /\ risk_settings = << >>

NextCbApi ==
    \/ Advance
    \/ \E u \in Users :
        \/ ApiGetCircuitBreakerStatus(u)
        \/ ApiPauseTrading(u)
        \/ ApiResumeTrading(u)
        \/ ApiActivateKillSwitch(u)
        \/ ApiDeactivateKillSwitch(u)

SpecCbApi == InitCbApi /\ [][NextCbApi]_vars

\* C22: the state of an account persists across requests: the status request
\* that follows a completed pause or kill-switch request of the same account
\* reports status Paused or Killed and trading not allowed.
C22_StatusAfterPauseOrKillPersists ==
    [][\A u \in Users :
        (/\ last.op \in {"api_pause_trading", "activate_kill_switch"}
         /\ last.user = u
         /\ ApiGetCircuitBreakerStatus(u))
            => (/\ get_statistics(cb_state', u, trades').status \in {PAUSED, KILLED}
                /\ ~last'.allowed)]_vars

----------------------------------------------------------------------------
(* Circuit breaker: system health *)

\* The health the most recent update_system_health call set, as the tracked
\* accounts hold it: the call writes it to every tracked account, and no
\* other method writes system_health.
HealthHeld == {cb_state[v].system_health : v \in DOMAIN cb_state}

\* C23: while the most recent update_system_health call set the health to
\* Critical or Offline, is_trading_allowed returns false for every account,
\* also for one whose state its query has just created.
C23_NoTradingWhileCriticalOrOffline ==
    (last.op = "is_trading_allowed" /\ HealthHeld \cap {CRITICAL, OFFLINE} # {})
        => ~last.allowed

----------------------------------------------------------------------------
(* Position sizing: the sign of an approved size *)

\* C24: every approved PositionSizingResult has position_size_usd > 0 and
\* risk_amount >= 0, for every portfolio snapshot get_portfolio_metrics can
\* derive, an equity of 0 and a negative equity included.
C24_ApprovedSizeIsPositive ==
    (SizerCalled /\ sized.result.approved)
        => (/\ FGt(sized.result.position_size_usd, FZero)
            /\ FGe(sized.result.risk_amount, FZero))

----------------------------------------------------------------------------
(* SpecExecConc: execute_signal and open_trade requests served concurrently. *)
(* A request suspends at every await: after the count of line 47 (110) and *)
(* its test, at the balance and market-data calls, at the flush of line 84 *)
(* (136), and at the exchange calls of _open_position.  Every write to the *)
(* trades table is taken to be visible to the other requests at once,      *)
(* which is the most the database does for them.                           *)

\* Lines 44-55 (107-121): the tests made before the trade is created, on the
\* count the select of _count_open_trades returned.  A slot serves one
\* request, which bounds the number of requests by MaxRequests.
ExecCheck(r, u) ==
    \E op \in {"execute_signal", "open_trade"}, can_trade \in BOOLEAN, balance \in BOOLEAN,
       price \in BOOLEAN :
        LET raised == IF op = "execute_signal"
                          THEN execute_signal_raises(trades, u, can_trade, balance)
                          ELSE open_trade_raises(trades, u, can_trade, balance, price)
        IN  /\ exec_tasks[r].pc = "idle"
            /\ IF raised # "ok"
                   THEN /\ exec_tasks' = [exec_tasks EXCEPT ![r] =
                                [pc |-> "done", op |-> op, user |-> u, row |-> 0]]
                        /\ last' = Called(op, u, raised)
                   ELSE /\ exec_tasks' = [exec_tasks EXCEPT ![r] =
                                [pc |-> "checked", op |-> op, user |-> u, row |-> 0]]
                        /\ last' = last
            /\ UNCHANGED <<cb_state, now, trades, kill_task, riskvars>>

\* Lines 69-84 (123-136) and the start of _open_position (205-211): the
\* trade is added and flushed, and marked Opening, or Failed without a key
ExecCreate(r) ==
    \E key_ok \in BOOLEAN :
        LET t == exec_tasks[r]
        IN  /\ t.pc = "checked"
            /\ trades' = Append(trades, Trade(t.user, IF key_ok THEN OPENING ELSE FAILED))
            /\ exec_tasks' = [exec_tasks EXCEPT ![r] =
                    [t EXCEPT !.pc = IF key_ok THEN "opening" ELSE "done",
                              !.row = Len(trades) + 1]]
            /\ last' = IF key_ok THEN last ELSE Called(t.op, t.user, "ok")
            /\ UNCHANGED <<cb_state, now, kill_task, riskvars>>

\* _open_position, lines 213-246: the exchange calls and their outcome
ExecOpen(r) ==
    \E exch \in ExchangeOutcomes :
        LET t == exec_tasks[r]
            opened == open_position(TRUE, exch)
        IN  /\ t.pc = "opening"
            /\ trades' = [trades EXCEPT ![t.row] =
                    IF opened.status = OPEN
                        THEN Opened(@)
                        ELSE [@ EXCEPT !.status = opened.status]]
            /\ exec_tasks' = [exec_tasks EXCEPT ![r] = [t EXCEPT !.pc = "done"]]
            /\ last' = [Called(t.op, t.user, "ok") EXCEPT !.order = opened.order]
            /\ UNCHANGED <<cb_state, now, kill_task, riskvars>>

\* One account is a position short of settings.max_concurrent_positions
InitExecConc ==
    /\ cb_state = << >>
    /\ now = 0
    /\ trades = [i \in 1..(max_concurrent_positions - 1) |-> Opened(Trade("u1", OPENING))]
    /\ kill_task = NoTask
    /\ exec_tasks = NoRequests
    /\ last = [op |-> "init", user |-> "none", pre |-> "untracked", out |-> "ok",
               allowed |-> FALSE, reason |-> NoneStr, dur |-> NoneTime, order |-> FALSE]
    /\ risk_in = [limits |-> RiskLimits, metrics |-> EmptyMetrics,
                  entry_price |-> FromInt(100), stop_loss_price |-> FromInt(95)]
    /\ sized = NoSized
    /\ validated = NoValidated
    /\ risk_settings = << >>

NextExecConc ==
    \E r \in 1..MaxRequests :
        \/ \E u \in Users : ExecCheck(r, u)
        \/ ExecCreate(r)
        \/ ExecOpen(r)

SpecExecConc == InitExecConc /\ [][NextExecConc]_vars

\* C25: under concurrent execute_signal / open_trade requests of one user,
\* the number of the user's trades in status Open or Opening never exceeds
\* settings.max_concurrent_positions.
C25_OpenTradesWithinLimit ==
    \A u \in Users : count_open_trades(trades, u) <= max_concurrent_positions

----------------------------------------------------------------------------
(* SpecLedger: the operations that move a trade towards Closed, next to    *)
(* kill_switch: TradeExecutor.close_trade (the close endpoint and the      *)
(* close_trade task the TP/SL monitor schedules), the periodic             *)
(* PositionSyncService.sync_all_positions and the monitor_tp_sl task, all  *)
(* within one clock tick.  (TradeExecutor.sync_trade_positions, which no   *)
(* code calls, returns at once for a trade that is not Open.)              *)

\* The mark price at the close: 0 (missing from the market data) or 110
ExitPrices == {0, 110}

\* close_trade raises BadRequestError for a trade that is not Open
close_trade_raises(t) == t.status # OPEN

\* close_trade on an Open trade (a LONG of leverage 1, position_size =
\* position_size_usd / entry_price): lines 162-200.  exchange_ok is false
\* when the wallet key is missing or a call to the exchange raises.
close_trade(t, exchange_ok, exit_price, at) ==
    IF close_trade_raises(t) THEN t
    ELSE IF ~exchange_ok THEN [t EXCEPT !.status = OPEN]
    ELSE LET closed == [t EXCEPT !.status = CLOSED, !.closed_at = at]
         IN  IF t.entry_price # NoneNum /\ t.entry_price[1] # 0 /\ exit_price # 0
                 THEN [closed EXCEPT !.realized_pnl =
                          Dec((exit_price - t.entry_price[1])
                                * (t.position_size_usd[1] \div t.entry_price[1]))]
                 ELSE closed

\* PositionSyncService.sync_all_positions on one of the trades it selects
\* (status Open), with sync_trade_position: the position is listed or not
sync_trade_position(t, listed, at) ==
    IF t.status # OPEN THEN t
    ELSE IF listed THEN [t EXCEPT !.unrealized_pnl = Dec(0)]
    ELSE [t EXCEPT !.status = CLOSED, !.closed_at = at]

\* _monitor_tp_sl: whether it schedules close_trade_task
monitor_tp_sl_schedules(t, price_hit) == t.status = OPEN /\ price_hit

CloseTrade(i) ==
    \E exchange_ok \in BOOLEAN, exit_price \in ExitPrices :
        /\ trades' = [trades EXCEPT ![i] = close_trade(@, exchange_ok, exit_price, now)]
        /\ last' = Called("close_trade", trades[i].user,
                          IF close_trade_raises(trades[i]) THEN "BadRequestError"
                          ELSE IF ~exchange_ok THEN "HyperliquidAPIError"
                          ELSE "ok")
        /\ UNCHANGED <<cb_state, now>>
        /\ UNCHANGED <<riskvars, kill_task, exec_tasks>>

SyncTradePosition(i) ==
    \E listed \in BOOLEAN :
        /\ trades' = [trades EXCEPT ![i] = sync_trade_position(@, listed, now)]
        /\ last' = Called("sync_trade_position", trades[i].user, "ok")
        /\ UNCHANGED <<cb_state, now>>
        /\ UNCHANGED <<riskvars, kill_task, exec_tasks>>

\* The task changes no trade itself; the close it schedules is CloseTrade
MonitorTpSl(i) ==
    \E price_hit \in BOOLEAN :
        /\ last' = Called("monitor_tp_sl", trades[i].user,
                          IF monitor_tp_sl_schedules(trades[i], price_hit)
                              THEN "close_trade_task" ELSE "ok")
        /\ UNCHANGED <<cb_state, now, trades>>
        /\ UNCHANGED <<riskvars, kill_task, exec_tasks>>

\* MaxTrades positions are open, of the two accounts in turn
InitLedger ==
    /\ cb_state = << >>
    /\ now = 0
    /\ trades = [i \in 1..MaxTrades |->
                    Opened(Trade(IF i % 2 = 1 THEN "u1" ELSE "u2", OPENING))]
    /\ kill_task = NoTask
    /\ exec_tasks = NoRequests
    /\ last = [op |-> "init", user |-> "none", pre |-> "untracked", out |-> "ok",
               allowed |-> FALSE, reason |-> NoneStr, dur |-> NoneTime, order |-> FALSE]
    /\ risk_in = [limits |-> RiskLimits, metrics |-> EmptyMetrics,
                  entry_price |-> FromInt(100), stop_loss_price |-> FromInt(95)]
    /\ sized = NoSized
    /\ validated = NoValidated
    /\ risk_settings = << >>

NextLedger ==
    \/ \E u \in Users : KillSwitch(u)
    \/ \E i \in 1..MaxTrades :
        \/ CloseTrade(i)
        \/ SyncTradePosition(i)
        \/ MonitorTpSl(i)

\* The sync runs every minute (celery beat); close requests and the monitor
\* are taken to be repeated for as long as they could change something
FairLedger ==
    \A i \in 1..MaxTrades :
        /\ WF_vars(CloseTrade(i))
        /\ WF_vars(SyncTradePosition(i))
        /\ WF_vars(MonitorTpSl(i))

SpecLedger == InitLedger /\ [][NextLedger]_vars /\ FairLedger

\* C26: every trade that kill_switch(close_positions = True) marks as
\* Closing eventually reaches status Closed.
C26_ClosingReachesClosed ==
    \A i \in 1..MaxTrades : (trades[i].status = CLOSING) ~> (trades[i].status = CLOSED)

----------------------------------------------------------------------------
(* Kill switch: what it does to the trades *)

----------------------------------------------------------------------------
(* Circuit breaker: frame conditions *)

C29_DeactivateClearsAllPauseFields ==
    last.op = "deactivate_kill_switch" =>
        /\ last.out = "ok"
        /\ cb_state[last.user].status = ACTIVE
        /\ PauseFieldsUnset(cb_state[last.user])
        /\ cb_state[last.user].auto_resume_at = NoneTime

\* What a pause_trading call of account u leaves, but for auto_resume_at
PauseRecorded(u) ==
    /\ cb_state'[u].status = PAUSED
    /\ cb_state'[u].paused_reason \in Reasons
    /\ cb_state'[u].paused_by = <<u>>
    /\ cb_state'[u].paused_at = now
    /\ cb_state'[u].system_health = get_state(cb_state, u)[u].system_health
    /\ DOMAIN cb_state' = DOMAIN cb_state \cup {u}
    /\ \A v \in DOMAIN cb_state \ {u} : cb_state'[v] = cb_state[v]

====
